---- MODULE Spec2Model ----
(***************************************************************************)
(* DotScramble (Privacy Studio): the undo/redo history manager             *)
(* (core/utils.py), the main window handlers that drive it                 *)
(* (gui/main_window.py), and the batch engine with its window              *)
(* (core/batch_processor.py, core/image_processor.py,                      *)
(* gui/batch_window.py).                                                   *)
(*                                                                         *)
(* Three specifications share the variables:                               *)
(*   SpecHistory  any sequence of calls on one HistoryManager;             *)
(*   SpecApp      the main window's handlers (load, process, undo, redo,   *)
(*                reset) on the window's HistoryManager;                   *)
(*   SpecBatch    one batch window: Start, the worker thread running       *)
(*                process_batch file by file, Stop, Close, on_complete.    *)
(***************************************************************************)
EXTENDS Integers, Sequences, FiniteSets, TLC

\* ---------------------------------------------------------------- bounds
MaxHistoryBound == 2   \* max_history ranges over 1..MaxHistoryBound
MaxImage == 2          \* whole-image snapshots are tokens 1..MaxImage
MaxSaves == 4          \* longest run of consecutive save_state calls tracked
MaxRedo == 2           \* cap on the redo stack under free add_to_redo calls
MaxFiles == 2          \* files the user can put in the batch list
MaxRegions == 2        \* regions a detector can report for one image
MaxWords == 2          \* words the OCR engine reports on one image
MaxApplies == 2        \* apply_effect_to_region calls on one loaded image
MaxSide == 4           \* width and height of the regions given to an effect
MaxWorkers == 2        \* worker threads started in one batch window

None == 0              \* Python's None, for images and return values
Images == 1..MaxImage

\* ------------------------------------------------------------- variables
VARIABLES
  hm,                \* HistoryManager: [history, redo_stack, max_history]
  calls,             \* HistoryManager calls made by the last handler, in order
  prevCall,          \* the HistoryManager call that preceded that handler
  ret,               \* value returned by the last undo()/redo() call
  lenBefore,         \* lengths of history and redo_stack before the last handler
  phase,             \* "saving" | "undoing" | "other": shape of the call trace
  saves,             \* arguments of the consecutive save_state calls so far
  undos,             \* number of undo() calls that followed them
  original_image,    \* main window: self.original_image
  processed_image,   \* main window: self.processed_image
  drawing_regions,   \* main window: number of manually drawn regions
  mwLast,            \* main window: name of the last handler that ran
  numpy_strict,      \* installed NumPy raises on the truth value of an empty array
  selected_files,    \* batch window: self.selected_files
  processing,        \* batch window: self.processing
  total_files,       \* batch window: self.total_files
  current_progress,  \* batch window: self.current_progress
  failed_count,      \* batch window: self.failed_count
  start_btn,         \* batch window: state of the Start button (and Add, Close)
  closed,            \* batch window: the window was destroyed
  wpc,               \* worker thread: "none" | "loop" | "infile" | "returned"
  wi,                \* worker thread: files started so far (the loop's i + 1)
  input_paths,       \* worker thread: process_batch's input_paths
  settings,          \* worker thread: process_batch's settings
  results,           \* BatchProcessor.results
  cbLog,             \* callbacks the run has invoked, in order
  env,               \* per file of the run: what the disk and the detector gave,
                     \* the image handed to imwrite, whether it was written
  td_image,          \* text detection: shape of the image given to the detector
  ocr,               \* text detection: the OCR engine on that image, [status, data]
  tdCall,            \* text detection: the last call and its arguments
  tdRet,             \* text detection: what that call returned
  dialogs,           \* text detection: message boxes that call showed, in order
  mt,                \* word matching: the last OCR word tested and the verdict
  pixels,            \* main window: the arrays original_image and processed_image
  mwRegion,          \* main window: the last apply_effect_to_region call
  fx,                \* effects: the last ImageProcessor call and what it gave
  workers            \* batch window: the worker threads started so far

historyVars == <<hm, calls, prevCall, ret, lenBefore, phase, saves, undos>>
appVars == <<original_image, processed_image, drawing_regions, mwLast>>
batchVars == <<numpy_strict, selected_files, processing, total_files,
               current_progress, failed_count, start_btn, closed, wpc, wi,
               input_paths, settings, results, cbLog, env>>
textVars == <<td_image, ocr, tdCall, tdRet, dialogs>>
matchVars == <<mt>>
regionVars == <<pixels, mwRegion>>
effectVars == <<fx>>
overlapVars == <<workers>>
sideVars == <<textVars, matchVars, regionVars, effectVars, overlapVars>>
vars == <<historyVars, appVars, batchVars, sideVars>>

\* ------------------------------------------------- sequence helper operators
Last(s) == s[Len(s)]
Front(s) == SubSeq(s, 1, Len(s) - 1)
\* list.pop(0) leaves s[1:]
PopFirst(s) == SubSeq(s, 2, Len(s))

\* ------------------------------------------------ HistoryManager (utils.py)
\* __init__: empty stacks, the given capacity
HM_init(max_history) ==
  [history |-> <<>>, redo_stack |-> <<>>, max_history |-> max_history]

\* save_state with the capacity test off by one
HM_save_state_OffByOne(h, image) ==
  IF image # None
  THEN LET pushed == Append(h.history, image)
       IN [h EXCEPT !.history = IF Len(pushed) > h.max_history + 1
                                 THEN PopFirst(pushed) ELSE pushed,
                    !.redo_stack = <<>>]
  ELSE h

\* save_state that leaves the redo stack alone
HM_save_state_KeepRedo(h, image) ==
  IF image # None
  THEN LET pushed == Append(h.history, image)
       IN [h EXCEPT !.history = IF Len(pushed) > h.max_history
                                 THEN PopFirst(pushed) ELSE pushed]
  ELSE h

\* save_state(image): append a copy, evict the oldest beyond max_history,
\* empty the redo stack; nothing at all for image None
HM_save_state(h, image) ==
  IF image # None
  THEN LET pushed == Append(h.history, image)
       IN [h EXCEPT !.history = IF Len(pushed) > h.max_history
                                 THEN PopFirst(pushed) ELSE pushed,
                    !.redo_stack = <<>>]
  ELSE h

\* undo() handing out the oldest entry instead of the newest
HM_undo_ret_Oldest(h) == IF Len(h.history) > 0 THEN h.history[1] ELSE None

\* undo(): the value returned
HM_undo_ret(h) == IF Len(h.history) > 0 THEN Last(h.history) ELSE None
\* undo(): the manager afterwards
HM_undo(h) ==
  IF Len(h.history) > 0 THEN [h EXCEPT !.history = Front(h.history)] ELSE h

\* redo(): the value returned
HM_redo_ret(h) == IF Len(h.redo_stack) > 0 THEN Last(h.redo_stack) ELSE None
\* redo(): the manager afterwards
HM_redo(h) ==
  IF Len(h.redo_stack) > 0 THEN [h EXCEPT !.redo_stack = Front(h.redo_stack)]
  ELSE h

\* add_to_redo(image): append a copy unless image is None
HM_add_to_redo(h, image) ==
  IF image # None THEN [h EXCEPT !.redo_stack = Append(h.redo_stack, image)]
  ELSE h

\* clear(): both stacks emptied
HM_clear(h) == [h EXCEPT !.history = <<>>, !.redo_stack = <<>>]

\* names of the calls as they are recorded in `calls`
CallSave(image) == IF image # None THEN "save_state" ELSE "save_state(None)"
CallUndo(h) == IF HM_undo_ret(h) # None THEN "undo:entry" ELSE "undo:None"
CallRedo(h) == IF HM_redo_ret(h) # None THEN "redo:entry" ELSE "redo:None"
CallAddToRedo(image) == IF image # None THEN "add_to_redo:push"
                        ELSE "add_to_redo(None)"

\* bookkeeping shared by all handlers: the calls of this handler, and the
\* call that came before them
Record(cs) ==
  /\ calls' = cs
  /\ prevCall' = IF Len(calls) > 0 THEN Last(calls) ELSE prevCall
  /\ lenBefore' = <<Len(hm.history), Len(hm.redo_stack)>>


\* -------------------------------- direct calls on a HistoryManager (utils.py)
\* the call trace is "saving" while it is save_state calls only, "undoing"
\* once undo() calls follow them, "other" after anything else
Call_save_state ==
  \E image \in Images \cup {None} :
    /\ hm' = HM_save_state(hm, image)
    /\ Record(<<CallSave(image)>>)
    /\ IF phase = "saving" /\ image # None /\ Len(saves) < MaxSaves
       THEN /\ saves' = Append(saves, image)
            /\ UNCHANGED <<phase, undos>>
       ELSE /\ phase' = "other"
            /\ saves' = <<>>
            /\ undos' = 0
    /\ UNCHANGED <<ret, appVars, batchVars, sideVars>>

Call_undo ==
  /\ hm' = HM_undo(hm)
  /\ ret' = HM_undo_ret(hm)
  /\ Record(<<CallUndo(hm)>>)
  /\ IF phase \in {"saving", "undoing"} /\ undos <= Len(saves)
     THEN /\ phase' = "undoing"
          /\ undos' = undos + 1
          /\ UNCHANGED saves
     ELSE /\ phase' = "other"
          /\ saves' = <<>>
          /\ undos' = 0
  /\ UNCHANGED <<appVars, batchVars, sideVars>>

Call_redo ==
  /\ hm' = HM_redo(hm)
  /\ ret' = HM_redo_ret(hm)
  /\ Record(<<CallRedo(hm)>>)
  /\ phase' = "other"
  /\ saves' = <<>>
  /\ undos' = 0
  /\ UNCHANGED <<appVars, batchVars, sideVars>>

Call_add_to_redo ==
  \E image \in Images \cup {None} :
    /\ Len(hm.redo_stack) < MaxRedo
    /\ hm' = HM_add_to_redo(hm, image)
    /\ Record(<<CallAddToRedo(image)>>)
    /\ phase' = "other"
    /\ saves' = <<>>
    /\ undos' = 0
    /\ UNCHANGED <<ret, appVars, batchVars, sideVars>>

\* clear() leaves the manager as constructed: the trace starts again
Call_clear ==
  /\ hm' = HM_clear(hm)
  /\ Record(<<"clear">>)
  /\ phase' = "saving"
  /\ saves' = <<>>
  /\ undos' = 0
  /\ UNCHANGED <<ret, appVars, batchVars, sideVars>>

\* ------------------------------------- main window handlers (main_window.py)
MWModes == {"face", "eye", "body", "license_plate", "text", "target_text",
            "manual", "full"}

\* the ways process_image can end for a detection mode: the three early
\* returns, the normal end, and the except branch
MWExits(mode) ==
  IF mode = "target_text" THEN {"empty_word", "not_found", "done", "error"}
  ELSE IF mode = "manual"
       THEN (IF drawing_regions = 0 THEN {"no_drawn"} ELSE {"done", "error"})
       ELSE {"done", "error"}

\* a handler of the window ran: the direct-call trace is no longer pure
MWTrace ==
  /\ phase' = "other"
  /\ saves' = <<>>
  /\ undos' = 0
  /\ UNCHANGED <<batchVars, sideVars>>

\* load_image: the picker is cancelled, the file does not decode, or it loads
MW_load_image ==
  \E outcome \in {"cancel", "undecodable", "loaded"}, image \in Images :
    /\ mwLast' = [op |-> "load_image", exit |-> outcome]
    /\ MWTrace
    /\ IF outcome = "loaded"
       THEN /\ original_image' = image
            /\ processed_image' = image
            /\ drawing_regions' = 0
            /\ hm' = HM_clear(hm)
            /\ Record(<<"clear">>)
       ELSE /\ original_image' = IF outcome = "undecodable" THEN None
                                 ELSE original_image
            /\ Record(<<>>)
            /\ UNCHANGED <<processed_image, drawing_regions, hm>>
    /\ UNCHANGED ret

\* process_image: the state is saved before the mode is even looked at; the
\* effects then turn the working image into some image
MW_process_image ==
  \E mode \in MWModes, image \in Images :
    \E exit \in MWExits(mode) :
      IF original_image = None
      THEN /\ mwLast' = [op |-> "process_image", exit |-> "no_image"]
           /\ MWTrace
           /\ Record(<<>>)
           /\ UNCHANGED <<hm, ret, original_image, processed_image,
                          drawing_regions>>
      ELSE /\ mwLast' = [op |-> "process_image", exit |-> exit]
           /\ MWTrace
           /\ IF processed_image # None
              THEN /\ hm' = HM_save_state(hm, processed_image)
                   /\ Record(<<CallSave(processed_image)>>)
              ELSE /\ hm' = hm
                   /\ Record(<<>>)
           /\ processed_image' = IF exit \in {"done", "error"} THEN image
                                 ELSE processed_image
           /\ UNCHANGED <<ret, original_image, drawing_regions>>

\* on_mouse_up in manual mode with a rectangle larger than 10x10
MW_draw_region ==
  /\ original_image # None
  /\ drawing_regions < 1
  /\ drawing_regions' = drawing_regions + 1
  /\ mwLast' = [op |-> "draw_region", exit |-> "done"]
  /\ MWTrace
  /\ Record(<<>>)
  /\ UNCHANGED <<hm, ret, original_image, processed_image>>

\* undo without the test of what history.undo() returned
MW_undo_Unguarded ==
  LET prev_image == HM_undo_ret(hm)
      h1 == HM_undo(hm)
  IN /\ mwLast' = [op |-> "undo",
                   exit |-> IF prev_image # None THEN "done" ELSE "empty"]
     /\ MWTrace
     /\ ret' = prev_image
     /\ hm' = HM_add_to_redo(h1, processed_image)
     /\ Record(<<CallUndo(hm), CallAddToRedo(processed_image)>>)
     /\ processed_image' = prev_image
     /\ UNCHANGED <<original_image, drawing_regions>>

\* undo: pop the history; only with an entry, push the working image on the
\* redo stack and replace it
MW_undo ==
  LET prev_image == HM_undo_ret(hm)
      h1 == HM_undo(hm)
  IN /\ mwLast' = [op |-> "undo",
                   exit |-> IF prev_image # None THEN "done" ELSE "empty"]
     /\ MWTrace
     /\ ret' = prev_image
     /\ IF prev_image # None
        THEN /\ hm' = HM_add_to_redo(h1, processed_image)
             /\ Record(<<CallUndo(hm), CallAddToRedo(processed_image)>>)
             /\ processed_image' = prev_image
        ELSE /\ hm' = h1
             /\ Record(<<CallUndo(hm)>>)
             /\ UNCHANGED processed_image
     /\ UNCHANGED <<original_image, drawing_regions>>

\* redo: pop the redo stack; only with an entry, save_state the working image
\* (which empties the rest of the redo stack) and replace it
MW_redo ==
  LET next_image == HM_redo_ret(hm)
      h1 == HM_redo(hm)
  IN /\ mwLast' = [op |-> "redo",
                   exit |-> IF next_image # None THEN "done" ELSE "empty"]
     /\ MWTrace
     /\ ret' = next_image
     /\ IF next_image # None
        THEN /\ hm' = HM_save_state(h1, processed_image)
             /\ Record(<<CallRedo(hm), CallSave(processed_image)>>)
             /\ processed_image' = next_image
        ELSE /\ hm' = h1
             /\ Record(<<CallRedo(hm)>>)
             /\ UNCHANGED processed_image
     /\ UNCHANGED <<original_image, drawing_regions>>

\* reset_image: back to the original, history cleared
MW_reset_image ==
  /\ mwLast' = [op |-> "reset_image",
                exit |-> IF original_image # None THEN "done" ELSE "no_image"]
  /\ MWTrace
  /\ IF original_image # None
     THEN /\ processed_image' = original_image
          /\ drawing_regions' = 0
          /\ hm' = HM_clear(hm)
          /\ Record(<<"clear">>)
     ELSE /\ Record(<<>>)
          /\ UNCHANGED <<processed_image, drawing_regions, hm>>
  /\ UNCHANGED <<ret, original_image>>

\* ------------------------------------------------ images, paths, the disk
\* an image is [w, h, px]: px maps <<row, column>> to a pixel value 0..255
\* (one number stands for the three channels, which are treated alike)
Coords(w, h) == (0..(h - 1)) \X (0..(w - 1))
NoImage == [w |-> 0, h |-> 0, px |-> [rc \in {} |-> 0]]
IsEmptyImage(img) == img.w = 0 \/ img.h = 0

\* the k-th file the user can add: files 1 and 2 share a stem
PathOf(k) == [stem |-> (k + 1) \div 2,
              ext |-> IF k % 2 = 1 THEN ".jpg" ELSE ".png"]
NoPath == [stem |-> 0, ext |-> "None"]

\* what cv2.imread gives for a path when the file decodes
DiskImage(path) ==
  LET w == IF path.ext = ".jpg" THEN 2 ELSE 1
      h == 2
  IN [w |-> w, h |-> h,
      px |-> [rc \in Coords(w, h) |-> 40 * path.stem + 10 * rc[1] + 5 * rc[2] + 7]]

\* numpy slicing image[y:y+h, x:x+w]: clipped to the array, possibly empty
Crop(image, x, y, w, h) ==
  LET cw == IF x + w > image.w THEN (IF image.w > x THEN image.w - x ELSE 0) ELSE w
      ch == IF y + h > image.h THEN (IF image.h > y THEN image.h - y ELSE 0) ELSE h
  IN IF cw = 0 \/ ch = 0 THEN NoImage
     ELSE [w |-> cw, h |-> ch,
           px |-> [rc \in Coords(cw, ch) |-> image.px[<<y + rc[1], x + rc[2]>>]]]

RECURSIVE SumOver(_, _)
SumOver(f, S) ==
  IF S = {} THEN 0
  ELSE LET e == CHOOSE e \in S : TRUE IN f[e] + SumOver(f, S \ {e})

\* mean of a region's pixels, truncated (numpy mean().astype(uint8))
MeanFloor(region) == SumOver(region.px, DOMAIN region.px) \div (region.w * region.h)
\* mean of a region's pixels, rounded (OpenCV's saturate_cast)
MeanRound(region) ==
  (2 * SumOver(region.px, DOMAIN region.px) + region.w * region.h)
    \div (2 * region.w * region.h)
Fill(region, v) == [region EXCEPT !.px = [rc \in DOMAIN region.px |-> v]]
Max(a, b) == IF a > b THEN a ELSE b
Min(a, b) == IF a < b THEN a ELSE b

\* ------------------------------------------ ImageProcessor (image_processor.py)
\* every effect returns [raised, image]; image is the REGION, not the frame
Raised == [raised |-> TRUE, image |-> NoImage]
Returned(img) == [raised |-> FALSE, image |-> img]

\* gaussian_blur: the kernel side is made odd; cv2.GaussianBlur rejects an
\* empty region; each pixel becomes a weighted mean of the region (for a
\* region far smaller than the kernel: the mean)
gaussian_blur(image, x, y, w, h, strength) ==
  LET k == IF strength % 2 = 0 THEN strength + 1 ELSE strength
      region == Crop(image, x, y, w, h)
  IN IF IsEmptyImage(region) THEN Raised
     ELSE Returned(Fill(region, IF k = 1 THEN region.px[<<0, 0>>] ELSE MeanRound(region)))

\* the intermediate grid rounded up instead of down
PixelateTempSize_Ceil(region_w, region_h, pixel_size) ==
  LET p == Max(1, pixel_size)
  IN <<Max(1, (region_w + p - 1) \div p), Max(1, (region_h + p - 1) \div p)>>

\* pixelate: size of the intermediate grid, <<temp_w, temp_h>>
PixelateTempSize(region_w, region_h, pixel_size) ==
  LET p == Max(1, pixel_size)
  IN <<Max(1, region_w \div p), Max(1, region_h \div p)>>

\* pixelate: shrink to the intermediate grid (each cell the rounded mean of
\* the source block it covers), then enlarge by nearest neighbour
pixelate(image, x, y, w, h, pixel_size) ==
  LET region == Crop(image, x, y, w, h)
  IN IF IsEmptyImage(region) THEN Raised
     ELSE LET t == PixelateTempSize(region.w, region.h, pixel_size)
              CellOf(rc) == <<(rc[1] * t[2]) \div region.h, (rc[2] * t[1]) \div region.w>>
              Block(cell) == {rc \in DOMAIN region.px : CellOf(rc) = cell}
              CellValue(cell) ==
                (2 * SumOver(region.px, Block(cell)) + Cardinality(Block(cell)))
                   \div (2 * Cardinality(Block(cell)))
          IN Returned([region EXCEPT
                         !.px = [rc \in DOMAIN region.px |-> CellValue(CellOf(rc))]])

\* black_bar: a filled black rectangle on a copy, then the region of the copy
black_bar(image, x, y, w, h) == Returned(Fill(Crop(image, x, y, w, h), 0))

\* gradient_fade: addWeighted(region, 1, blurred, 0, 0) per channel gives the
\* region back; the GaussianBlur before it rejects an empty region
gradient_fade(image, x, y, w, h) ==
  LET region == Crop(image, x, y, w, h)
  IN IF IsEmptyImage(region) THEN Raised ELSE Returned(region)

\* mosaic_effect: every tile_size x tile_size tile becomes its truncated mean
mosaic_effect(image, x, y, w, h, tile_size) ==
  LET region == Crop(image, x, y, w, h)
      TileOf(rc) == <<rc[1] \div tile_size, rc[2] \div tile_size>>
      Tile(rc) == {q \in DOMAIN region.px : TileOf(q) = TileOf(rc)}
  IN Returned([region EXCEPT
                 !.px = [rc \in DOMAIN region.px |->
                           SumOver(region.px, Tile(rc)) \div Cardinality(Tile(rc))]])

\* frosted_glass: blur, brightness x 1.1, edge enhancement (the last left
\* out); cvtColor rejects an empty region
frosted_glass(image, x, y, w, h) ==
  LET region == Crop(image, x, y, w, h)
  IN IF IsEmptyImage(region) THEN Raised
     ELSE Returned(Fill(region, Min(255, (MeanRound(region) * 11) \div 10)))

\* oil_paint: xphoto.oilPainting or, in the except branch, two bilateral
\* filters; a smoothing of the region in both cases, an error on an empty one
oil_paint(image, x, y, w, h) ==
  LET region == Crop(image, x, y, w, h)
  IN IF IsEmptyImage(region) THEN Raised ELSE Returned(Fill(region, MeanRound(region)))

\* x / d rounded to the nearest integer, ties to the even one (cvRound)
RoundHalfEven(x, d) ==
  LET q == x \div d
      r == x % d
  IN IF 2 * r < d THEN q
     ELSE IF 2 * r > d THEN q + 1
     ELSE IF q % 2 = 0 THEN q ELSE q + 1

\* apply_opacity with the two weights exchanged
apply_opacity_Swapped(original, processed, opacity) ==
  IF original.w # processed.w \/ original.h # processed.h THEN Raised
  ELSE Returned([processed EXCEPT !.px =
         [rc \in DOMAIN processed.px |->
            RoundHalfEven(opacity * original.px[rc]
                          + (100 - opacity) * processed.px[rc], 100)]])

\* apply_opacity: cv2.addWeighted(processed, alpha, original, 1 - alpha, 0)
\* with alpha = opacity / 100.0; arrays of different shapes raise cv2.error
apply_opacity(original, processed, opacity) ==
  IF original.w # processed.w \/ original.h # processed.h THEN Raised
  ELSE Returned([processed EXCEPT !.px =
         [rc \in DOMAIN processed.px |->
            RoundHalfEven(opacity * processed.px[rc]
                          + (100 - opacity) * original.px[rc], 100)]])

\* ------------------------------------------ DetectionEngine (image_processor.py)
\* the boxes a detector reports when it finds n regions
DetBoxes(image, n) == [j \in 1..n |-> <<(j - 1) % image.w, (j - 1) \div image.w, 1, 1>>]

\* detect_faces / detect_eyes / detect_full_body: detectMultiScale gives the
\* empty tuple for no detection and an n x 4 ndarray otherwise
DetectCascade(image, n) ==
  IF n = 0 THEN [kind |-> "tuple", boxes |-> <<>>]
  ELSE [kind |-> "ndarray", boxes |-> DetBoxes(image, n)]

\* detect_license_plates / detect_text: np.array(list of boxes), empty or not
DetectArray(image, n) == [kind |-> "ndarray", boxes |-> DetBoxes(image, n)]

\* -------------------------------------------- BatchProcessor (batch_processor.py)
BatchModes == {"face", "eye", "body", "license_plate", "text", "full"}
BatchEffects == {"blur", "pixelation", "black_bar", "gradient", "mosaic",
                 "glass", "oil_paint"}

\* _detect_regions: dispatch on the mode string; n is what the detector finds
DetectRegions(image, detection_mode, n) ==
  IF detection_mode \in {"face", "eye", "body"} THEN DetectCascade(image, n)
  ELSE IF detection_mode \in {"license_plate", "text"} THEN DetectArray(image, n)
  ELSE IF detection_mode = "full"
       THEN [kind |-> "list", boxes |-> <<<<0, 0, image.w, image.h>>>>]
       ELSE [kind |-> "list", boxes |-> <<>>]

\* `not regions`: "true", "false" or "raise". A list or tuple is falsy when
\* empty. An ndarray with more than one element has no truth value
\* (ValueError); an empty one is falsy with a DeprecationWarning before
\* NumPy 2.2 and a ValueError from 2.2 on.
NotRegions(regions, strict) ==
  IF regions.kind = "ndarray"
  THEN (IF Len(regions.boxes) > 0 THEN "raise"
        ELSE IF strict THEN "raise" ELSE "true")
  ELSE (IF Len(regions.boxes) = 0 THEN "true" ELSE "false")

\* _apply_effect_to_region: dispatch on the effect string; the opacity in
\* effect_params is never read
ApplyEffectToRegion(image, x, y, w, h, effect_type, effect_params) ==
  IF effect_type = "blur"
    THEN gaussian_blur(image, x, y, w, h, effect_params.blur_strength)
  ELSE IF effect_type = "pixelation"
    THEN pixelate(image, x, y, w, h, effect_params.pixel_size)
  ELSE IF effect_type = "black_bar" THEN black_bar(image, x, y, w, h)
  ELSE IF effect_type = "gradient" THEN gradient_fade(image, x, y, w, h)
  ELSE IF effect_type = "mosaic" THEN mosaic_effect(image, x, y, w, h, 10)
  ELSE IF effect_type = "glass" THEN frosted_glass(image, x, y, w, h)
  ELSE IF effect_type = "oil_paint" THEN oil_paint(image, x, y, w, h)
  ELSE Returned(image)

\* the loop over the regions: processed_image is REPLACED by what the effect
\* returned for the region, and the next region is cut out of that
RECURSIVE ApplyAll(_, _, _, _, _)
ApplyAll(working, boxes, j, effect_type, effect_params) ==
  IF j > Len(boxes) THEN Returned(working)
  ELSE LET b == boxes[j]
           r == ApplyEffectToRegion(working, b[1], b[2], b[3], b[4],
                                    effect_type, effect_params)
       IN IF r.raised THEN Raised
          ELSE ApplyAll(r.image, boxes, j + 1, effect_type, effect_params)

\* the name of the output file: processed_<stem>.jpg, whatever the input was
OutputPath(input_path) == [stem |-> input_path.stem, ext |-> ".jpg"]

Missing == 0 - 1   \* a key the dictionary does not have

\* _process_single_image. decodable, n and write_ok are the environment's:
\* whether imread decodes the file, how many regions the detector finds,
\* whether imwrite manages to write. The outcome is
\*   [raised, error, result, regions, out, wrote]:
\* an exception, or the result dictionary; the detector's answer; the image
\* handed to imwrite and whether it reached the disk.
ProcessSingleImage(input_path, st, strict, decodable, n, write_ok) ==
  LET image == DiskImage(input_path)
      regions == DetectRegions(image, st.detection_mode, n)
      none == [kind |-> "none", boxes |-> <<>>]
      Fail(msg, rg) == [raised |-> TRUE, error |-> msg, result |-> [a |-> 0],
                        regions |-> rg, out |-> NoImage, wrote |-> FALSE]
      Ok(img, count) ==
        [raised |-> FALSE, error |-> "None",
         result |-> [input_path |-> input_path,
                     output_path |-> OutputPath(input_path),
                     success |-> TRUE,
                     regions_processed |-> count,
                     error |-> "None"],
         regions |-> regions, out |-> img, wrote |-> write_ok]
  IN IF ~decodable THEN Fail("Could not load image", none)
     ELSE IF NotRegions(regions, strict) = "raise"
       THEN Fail("The truth value of an array is ambiguous", regions)
     ELSE IF NotRegions(regions, strict) = "true" THEN Ok(image, 0)
     ELSE LET r == ApplyAll(image, regions.boxes, 1, st.effect_type, st.effect_params)
          IN IF r.raised \/ IsEmptyImage(r.image) THEN Fail("cv2.error", regions)
             ELSE Ok(r.image, Len(regions.boxes))

\* the entry process_batch appends in its except branch
ErrorInfo(input_path, msg) ==
  [input_path |-> input_path, output_path |-> NoPath, success |-> FALSE,
   regions_processed |-> Missing, error |-> msg]

\* progress_callback moved behind the try statement: invoked for every file
Callbacks_ProgressAlways(raised, idx, input_path) ==
  IF raised THEN <<[cb |-> "error", idx |-> idx, path |-> input_path],
                   [cb |-> "progress", idx |-> idx, path |-> input_path]>>
  ELSE <<[cb |-> "progress", idx |-> idx, path |-> input_path]>>

\* the callbacks process_batch invokes for file number idx: progress_callback
\* after a result, error_callback in the except branch
Callbacks(raised, idx, input_path) ==
  IF raised THEN <<[cb |-> "error", idx |-> idx, path |-> input_path]>>
  ELSE <<[cb |-> "progress", idx |-> idx, path |-> input_path]>>

\* -------------------------------------------------- BatchWindow (batch_window.py)
BlurStrengths == {51}
PixelSizes == {15}
Opacities == {50}   \* the slider moved off its default of 100

\* the settings dictionary start_processing builds from the window's widgets
SettingsChoices ==
  [detection_mode : BatchModes, effect_type : BatchEffects,
   effect_params : [blur_strength : BlurStrengths, pixel_size : PixelSizes,
                    opacity : Opacities]]
DefaultSettings ==
  [detection_mode |-> "face", effect_type |-> "blur",
   effect_params |-> [blur_strength |-> 51, pixel_size |-> 15, opacity |-> 100]]

\* the elements of s at the positions in S, in order
RECURSIVE SelectSeq2(_, _, _)
SelectSeq2(s, S, j) ==
  IF j > Len(s) THEN <<>>
  ELSE (IF j \in S THEN <<s[j]>> ELSE <<>>) \o SelectSeq2(s, S, j + 1)

\* update_ui_state(processing): Add, Remove, Clear, Start and Close follow
\* one state, Stop the opposite one
UiState(is_processing) == IF is_processing THEN "disabled" ELSE "normal"

\* add_files: a file not yet in the list is appended
BW_add_files ==
  /\ ~closed
  /\ start_btn = "normal"
  /\ Len(selected_files) < MaxFiles
  /\ selected_files' = Append(selected_files, PathOf(Len(selected_files) + 1))
  /\ UNCHANGED <<numpy_strict, processing, total_files, current_progress,
                 failed_count, start_btn, closed, wpc, wi, input_paths,
                 settings, results, cbLog, env>>
  /\ UNCHANGED <<historyVars, appVars, sideVars>>

\* start_processing past its early returns (no files, no output folder, the
\* user declining to go on without the invalid files): the files that
\* validate are handed to a new worker thread, taken here up to the loop of
\* process_batch (a new result list). In this specification a run is started
\* only when no worker of an earlier run is alive.
BW_start_processing ==
  /\ ~closed
  /\ start_btn = "normal"
  /\ wpc = "none"
  /\ selected_files # <<>>
  /\ \E S \in SUBSET (1..Len(selected_files)), st \in SettingsChoices :
       /\ input_paths' = SelectSeq2(selected_files, S, 1)
       /\ settings' = st
       /\ total_files' = Cardinality(S)
  /\ processing' = TRUE
  /\ current_progress' = 0
  /\ failed_count' = 0
  /\ start_btn' = UiState(TRUE)
  /\ wpc' = "loop"
  /\ wi' = 0
  /\ results' = <<>>
  /\ cbLog' = <<>>
  /\ env' = <<>>
  /\ UNCHANGED <<numpy_strict, selected_files, closed>>
  /\ UNCHANGED <<historyVars, appVars, sideVars>>

\* stop_processing, confirmed: the flag is cleared and the buttons are
\* enabled again; the worker is not told
BW_stop_processing ==
  /\ ~closed
  /\ start_btn = "disabled"
  /\ processing' = FALSE
  /\ start_btn' = UiState(FALSE)
  /\ UNCHANGED <<numpy_strict, selected_files, total_files, current_progress,
                 failed_count, closed, wpc, wi, input_paths, settings,
                 results, cbLog, env>>
  /\ UNCHANGED <<historyVars, appVars, sideVars>>

\* on_close, confirmed when a run is in progress: the window is destroyed
BW_on_close ==
  /\ ~closed
  /\ processing' = FALSE
  /\ closed' = TRUE
  /\ UNCHANGED <<numpy_strict, selected_files, total_files, current_progress,
                 failed_count, start_btn, wpc, wi, input_paths, settings,
                 results, cbLog, env>>
  /\ UNCHANGED <<historyVars, appVars, sideVars>>

\* on_complete, run by the event loop after the worker returned: the flag is
\* cleared, then the buttons are enabled (an error on a destroyed window)
BW_on_complete ==
  /\ wpc = "returned"
  /\ wpc' = "none"
  /\ processing' = FALSE
  /\ start_btn' = IF closed THEN start_btn ELSE UiState(FALSE)
  /\ UNCHANGED <<numpy_strict, selected_files, total_files, current_progress,
                 failed_count, closed, wi, input_paths, settings, results,
                 cbLog, env>>
  /\ UNCHANGED <<historyVars, appVars, sideVars>>

\* the count of successes on_complete shows in its message, next to
\* failed_count and total_files
success_count == current_progress - failed_count

\* on_progress(current, total, result): ignored once the flag is cleared
OnProgress(current) == IF processing THEN current ELSE current_progress

\* ----------------------------------- the worker thread running process_batch
\* the for loop takes the next file; nothing is tested beforehand
W_begin_file ==
  /\ wpc = "loop"
  /\ wi < Len(input_paths)
  /\ wpc' = "infile"
  /\ wi' = wi + 1
  /\ UNCHANGED <<numpy_strict, selected_files, processing, total_files,
                 current_progress, failed_count, start_btn, closed,
                 input_paths, settings, results, cbLog, env>>
  /\ UNCHANGED <<historyVars, appVars, sideVars>>

\* the body of the loop for the file in flight: _process_single_image, the
\* result appended and progress_callback, or the except branch with the
\* error entry appended and error_callback. The detector and imwrite are
\* reached only when the file decodes.
W_finish_file ==
  /\ wpc = "infile"
  /\ \E decodable \in BOOLEAN :
     \E n \in (IF decodable THEN 0..MaxRegions ELSE {0}),
        write_ok \in (IF decodable THEN BOOLEAN ELSE {FALSE}) :
       LET input_path == input_paths[wi]
           r == ProcessSingleImage(input_path, settings, numpy_strict,
                                   decodable, n, write_ok)
       IN /\ results' = Append(results, IF r.raised
                                        THEN ErrorInfo(input_path, r.error)
                                        ELSE r.result)
          /\ cbLog' = cbLog \o Callbacks(r.raised, wi, input_path)
          /\ current_progress' = IF r.raised THEN current_progress
                                 ELSE OnProgress(wi)
          /\ failed_count' = IF r.raised THEN failed_count + 1 ELSE failed_count
          /\ env' = Append(env, [path |-> input_path,
                                 decodable |-> decodable,
                                 image |-> IF decodable THEN DiskImage(input_path)
                                           ELSE NoImage,
                                 regions |-> r.regions,
                                 raised |-> r.raised,
                                 out |-> r.out,
                                 wrote |-> r.wrote])
  /\ wpc' = "loop"
  /\ UNCHANGED <<numpy_strict, selected_files, processing, total_files,
                 start_btn, closed, wi, input_paths, settings>>
  /\ UNCHANGED <<historyVars, appVars, sideVars>>

\* the loop is exhausted: process_batch returns self.results and the worker
\* schedules on_complete
W_return ==
  /\ wpc = "loop"
  /\ wi = Len(input_paths)
  /\ wpc' = "returned"
  /\ UNCHANGED <<numpy_strict, selected_files, processing, total_files,
                 current_progress, failed_count, start_btn, closed, wi,
                 input_paths, settings, results, cbLog, env>>
  /\ UNCHANGED <<historyVars, appVars, sideVars>>

\* ---------------------------------------------- TextDetector (text_detector.py)
\* a string is the sequence of its characters
LowerChar(c) ==
  CASE c = "C" -> "c" [] c = "M" -> "m" [] c = "R" -> "r" [] OTHER -> c
\* str.lower()
Lower(s) == [i \in 1..Len(s) |-> LowerChar(s[i])]

\* str.strip(): the string without its leading and trailing blanks
RECURSIVE Strip(_)
Strip(s) ==
  IF s = <<>> THEN s
  ELSE IF Head(s) = " " THEN Strip(Tail(s))
  ELSE IF s[Len(s)] = " " THEN Strip(SubSeq(s, 1, Len(s) - 1))
  ELSE s

\* str.split(): the maximal runs of non-blank characters, in order
RECURSIVE Split(_)
Split(s) ==
  IF s = <<>> THEN <<>>
  ELSE IF Head(s) = " " THEN Split(Tail(s))
  ELSE LET blanks == {i \in 1..Len(s) : s[i] = " "}
           stop == IF blanks = {} THEN Len(s) + 1
                   ELSE CHOOSE i \in blanks : \A k \in blanks : i <= k
       IN <<SubSeq(s, 1, stop - 1)>> \o Split(SubSeq(s, stop, Len(s)))

\* s.startswith(prefix)
StartsWith(s, prefix) ==
  Len(prefix) <= Len(s) /\ SubSeq(s, 1, Len(prefix)) = prefix
\* t in s
Contains(s, t) ==
  \E i \in 0..(Len(s) - Len(t)) : SubSeq(s, i + 1, i + Len(t)) = t

\* the default of detect_specific_word's confidence_threshold
ConfidenceThreshold == 30

\* match_found with exact_match ignored: the substring test in both modes
MatchFound_ExactIgnored(detected_text, target_word, case_sensitive, exact_match) ==
  LET target == IF case_sensitive THEN Strip(target_word)
                ELSE Lower(Strip(target_word))
      target_words == Split(target)
      compare_text == IF case_sensitive THEN detected_text
                      ELSE Lower(detected_text)
  IN IF Len(target_words) = 1
     THEN Contains(compare_text, target)
     ELSE \E k \in 1..Len(target_words) :
            LET target_word_part == target_words[k]
            IN IF exact_match THEN compare_text = target_word_part
               ELSE IF StartsWith(compare_text, target_word_part)
                       \/ StartsWith(target_word_part, compare_text)
                 THEN Len(compare_text) <= Len(target_word_part) * 2
                 ELSE compare_text = target_word_part

\* match_found without the length test of the multi-word prefix rule
MatchFound_NoLengthTest(detected_text, target_word, case_sensitive, exact_match) ==
  LET target == IF case_sensitive THEN Strip(target_word)
                ELSE Lower(Strip(target_word))
      target_words == Split(target)
      compare_text == IF case_sensitive THEN detected_text
                      ELSE Lower(detected_text)
  IN IF Len(target_words) = 1
     THEN (IF exact_match THEN compare_text = target
           ELSE Contains(compare_text, target))
     ELSE \E k \in 1..Len(target_words) :
            LET target_word_part == target_words[k]
            IN IF exact_match THEN compare_text = target_word_part
               ELSE IF StartsWith(compare_text, target_word_part)
                       \/ StartsWith(target_word_part, compare_text)
                 THEN TRUE
                 ELSE compare_text = target_word_part

\* match_found for one OCR word: the phrase is stripped, both sides are
\* lowered unless case_sensitive; a one-word phrase is compared whole, a
\* longer one word by word, the first target word that decides wins
MatchFound(detected_text, target_word, case_sensitive, exact_match) ==
  LET target == IF case_sensitive THEN Strip(target_word)
                ELSE Lower(Strip(target_word))
      target_words == Split(target)
      compare_text == IF case_sensitive THEN detected_text
                      ELSE Lower(detected_text)
  IN IF Len(target_words) = 1
     THEN (IF exact_match THEN compare_text = target
           ELSE Contains(compare_text, target))
     ELSE \E k \in 1..Len(target_words) :
            LET target_word_part == target_words[k]
            IN IF exact_match THEN compare_text = target_word_part
               ELSE IF StartsWith(compare_text, target_word_part)
                       \/ StartsWith(target_word_part, compare_text)
                 THEN Len(compare_text) <= Len(target_word_part) * 2
                 ELSE compare_text = target_word_part

\* the loop's tests without the confidence threshold
WordMatches_AnyConf(text, conf, target_word, confidence_threshold, case_sensitive, exact_match) ==
  /\ Strip(text) # <<>>
  /\ MatchFound(Strip(text), target_word, case_sensitive, exact_match)

\* one pass of the loop over the OCR entries: empty text and entries under
\* the confidence threshold are skipped, the others are matched
WordMatches(text, conf, target_word, confidence_threshold, case_sensitive, exact_match) ==
  /\ Strip(text) # <<>>
  /\ conf >= confidence_threshold
  /\ MatchFound(Strip(text), target_word, case_sensitive, exact_match)

\* the texts and confidences the OCR engine reports, the phrases the user types
OcrTexts == {<<"c","a","t">>, <<"C","a","t">>, <<"c","a">>, <<"a","t">>,
             <<"c","a","t","s">>, <<"c","a","t","e","g","o","r","y">>,
             <<"m","e">>, <<"M","e","m","o">>, <<>>}
OcrConfs == {0 - 1, 29, 30, 80}
Phrases == {<<"c","a","t">>, <<"C","a","t">>, <<" ","c","a","t"," ">>,
            <<"a","t">>, <<"c","a","t"," ","m","e">>,
            <<"C","a","t"," "," ","M","e">>}

NoMatch == [detected_text |-> <<>>, conf |-> 0, target_word |-> <<>>,
            case_sensitive |-> FALSE, exact_match |-> FALSE,
            tested |-> FALSE, match_found |-> FALSE]

\* the loop body of detect_specific_word applied to one OCR entry
TD_match_word ==
  /\ ~mt.tested
  /\ \E text \in OcrTexts, conf \in OcrConfs, target_word \in Phrases,
        case_sensitive \in BOOLEAN, exact_match \in BOOLEAN :
       mt' = [detected_text |-> text, conf |-> conf,
              target_word |-> target_word,
              case_sensitive |-> case_sensitive, exact_match |-> exact_match,
              tested |-> TRUE,
              match_found |-> WordMatches(text, conf, target_word,
                                          ConfidenceThreshold,
                                          case_sensitive, exact_match)]
  /\ UNCHANGED <<historyVars, appVars, batchVars, textVars, regionVars, effectVars, overlapVars>>

\* a box is <<x, y, w, h>>; the padding and clamping both result paths share,
\* here without the last limit of the width and height
PadClamp_NoLimit(box, padding, img_w, img_h) ==
  LET x1 == Max(0, box[1] - padding)
      y1 == Max(0, box[2] - padding)
      w1 == box[3] + padding * 2
      h1 == box[4] + padding * 2
      x2 == Max(0, Min(x1, img_w - 1))
      y2 == Max(0, Min(y1, img_h - 1))
  IN <<x2, y2, w1, h1>>

\* x = max(0, x - padding), w += 2 * padding, then x = max(0, min(x, img_w - 1))
\* and w = min(w, img_w - x); the same for y and h
PadClamp(box, padding, img_w, img_h) ==
  LET x1 == Max(0, box[1] - padding)
      y1 == Max(0, box[2] - padding)
      w1 == box[3] + padding * 2
      h1 == box[4] + padding * 2
      x2 == Max(0, Min(x1, img_w - 1))
      y2 == Max(0, Min(y1, img_h - 1))
  IN <<x2, y2, Min(w1, img_w - x2), Min(h1, img_h - y2)>>

\* `if w > 5 and h > 5: regions.append(...)` over the candidate boxes
RECURSIVE KeepLarge(_)
KeepLarge(boxes) ==
  IF boxes = <<>> THEN <<>>
  ELSE (IF Head(boxes)[3] > 5 /\ Head(boxes)[4] > 5 THEN <<Head(boxes)>> ELSE <<>>)
       \o KeepLarge(Tail(boxes))

Abs(a) == IF a < 0 THEN 0 - a ELSE a

\* sorted(matched_boxes, key = (y, x)): stable, equal keys keep their order
\* the sort key with its two coordinates exchanged: (x, y)
KeyLE_XFirst(a, b) == a.box[1] < b.box[1] \/ (a.box[1] = b.box[1] /\ a.box[2] <= b.box[2])
\* the sort key of _group_nearby_boxes: (box[1], box[0]), that is (y, x)
KeyLE(a, b) == a.box[2] < b.box[2] \/ (a.box[2] = b.box[2] /\ a.box[1] <= b.box[1])
RECURSIVE InsertSorted(_, _)
InsertSorted(sorted, b) ==
  IF sorted = <<>> THEN <<b>>
  ELSE IF KeyLE(Head(sorted), b) THEN <<Head(sorted)>> \o InsertSorted(Tail(sorted), b)
  ELSE <<b>> \o sorted
RECURSIVE SortBoxes(_)
SortBoxes(boxes) ==
  IF boxes = <<>> THEN <<>>
  ELSE InsertSorted(SortBoxes(Front(boxes)), Last(boxes))

\* the inner loop finding nothing: every box stays alone
Nearby_None(sorted_boxes, i, used, max_distance) == {}

\* the positions the seed at position i takes into its group: not used yet,
\* on the seed's line (y difference at most the larger height) and starting
\* less than 3 * max_distance from the seed's right edge
Nearby(sorted_boxes, i, used, max_distance) ==
  {j \in 1..Len(sorted_boxes) :
     /\ j \notin used /\ j # i
     /\ Abs(sorted_boxes[i].box[2] - sorted_boxes[j].box[2])
          <= Max(sorted_boxes[i].box[4], sorted_boxes[j].box[4])
     /\ Abs(sorted_boxes[j].box[1]
            - (sorted_boxes[i].box[1] + sorted_boxes[i].box[3])) < max_distance * 3}

\* the grouping loop of _group_nearby_boxes: the groups, as sets of positions
\* of sorted_boxes, in the order their seeds are met
RECURSIVE Groups(_, _, _, _)
Groups(sorted_boxes, i, used, max_distance) ==
  IF i > Len(sorted_boxes) THEN <<>>
  ELSE IF i \in used THEN Groups(sorted_boxes, i + 1, used, max_distance)
  ELSE LET group == {i} \cup Nearby(sorted_boxes, i, used \cup {i}, max_distance)
       IN <<group>> \o Groups(sorted_boxes, i + 1, used \cup group, max_distance)

MinOf(S) == CHOOSE a \in S : \A b \in S : a <= b
MaxOf(S) == CHOOSE a \in S : \A b \in S : a >= b

\* min(all_x), min(all_y), max(all_x_end) - x, max(all_y_end) - y
UnionBox(boxes) ==
  LET x == MinOf({b[1] : b \in boxes})
      y == MinOf({b[2] : b \in boxes})
  IN <<x, y, MaxOf({b[1] + b[3] : b \in boxes}) - x,
             MaxOf({b[2] + b[4] : b \in boxes}) - y>>

\* _group_nearby_boxes(matched_boxes, image), max_distance = 50: one padded
\* (10) and clamped box per group, the degenerate ones left out
GroupNearbyBoxes(matched_boxes, img_w, img_h) ==
  LET sorted_boxes == SortBoxes(matched_boxes)
      groups == Groups(sorted_boxes, 1, {}, 50)
  IN KeepLarge([g \in 1..Len(groups) |->
                  PadClamp(UnionBox({sorted_boxes[j].box : j \in groups[g]}),
                           10, img_w, img_h)])

\* the entries of data that pass the loop's tests, in order (matched_boxes)
RECURSIVE MatchedBoxes(_, _, _, _, _)
MatchedBoxes(data, target_word, confidence_threshold, case_sensitive, exact_match) ==
  IF data = <<>> THEN <<>>
  ELSE (IF WordMatches(Head(data).text, Head(data).conf, target_word,
                       confidence_threshold, case_sensitive, exact_match)
        THEN <<[text |-> Strip(Head(data).text), conf |-> Head(data).conf,
                box |-> Head(data).box]>>
        ELSE <<>>)
       \o MatchedBoxes(Tail(data), target_word, confidence_threshold,
                       case_sensitive, exact_match)

\* detect_specific_word(image, target_word, confidence_threshold,
\* case_sensitive, exact_match) with the OCR engine o on the image:
\* [regions, matched_boxes, dialogs]. The three early returns and the
\* no-match return all give the empty list.
DetectSpecificWord(img, o, target_word, confidence_threshold, case_sensitive, exact_match) ==
  LET Empty(shown) == [regions |-> <<>>, matched_boxes |-> <<>>, dialogs |-> shown]
      target_words == Split(Strip(target_word))
      matched_boxes == MatchedBoxes(o.data, target_word, confidence_threshold,
                                    case_sensitive, exact_match)
  IN IF o.status = "unavailable" THEN Empty(<<"OCR Not Available">>)
     ELSE IF Strip(target_word) = <<>> THEN Empty(<<>>)
     ELSE IF o.status = "raises" THEN Empty(<<"OCR Error">>)
     ELSE [regions |->
             IF Len(matched_boxes) > 1 /\ Len(target_words) > 1
             THEN GroupNearbyBoxes(matched_boxes, img.w, img.h)
             ELSE KeepLarge([k \in 1..Len(matched_boxes) |->
                               PadClamp(matched_boxes[k].box, 8, img.w, img.h)]),
           matched_boxes |-> matched_boxes,
           dialogs |-> <<>>]

\* the boxes of the entries at the positions in S, in order
BoxesAt(entries, S) ==
  LET kept == SelectSeq2(entries, S, 1)
  IN [k \in 1..Len(kept) |-> kept[k].box]

OcrKeep(e) == e.conf > 30 /\ e.box[3] > 10 /\ e.box[4] > 10
ContourKeep(e) == 10 < e.box[3] /\ e.box[3] < 200 /\ 10 < e.box[4] /\ e.box[4] < 100

\* DetectionEngine.detect_text(image): the OCR words over confidence 30 that
\* are wider and higher than 10; when the OCR call raises, the bare except
\* answers with the bounding boxes of the contours of the thresholded image
detect_text(o, contours) ==
  IF o.status = "ok"
  THEN [kind |-> "ndarray", source |-> "ocr",
        boxes |-> BoxesAt(o.data, {j \in 1..Len(o.data) : OcrKeep(o.data[j])})]
  ELSE [kind |-> "ndarray", source |-> "contours",
        boxes |-> BoxesAt(contours,
                          {j \in 1..Len(contours) : ContourKeep(contours[j])})]

\* the images, and what the OCR engine and the contour finder report on them
ImageShapes == {[w |-> 400, h |-> 100], [w |-> 100, h |-> 40], [w |-> 8, h |-> 8]}
WordBoxes == {<<10, 10, 50, 20>>, <<65, 10, 30, 20>>, <<3, 3, 50, 20>>,
              <<300, 10, 30, 20>>, <<65, 60, 30, 20>>, <<1, 1, 6, 6>>,
              <<210, 10, 30, 20>>, <<65, 32, 30, 8>>}
SceneTexts == {<<"R","e","m","i","n","d">>, <<"M","e">>, <<"c","a","t">>}
Inside(box, img) == box[1] + box[3] <= img.w /\ box[2] + box[4] <= img.h
\* the OCR engine reports words that lie inside the image
OcrWords(img) ==
  {e \in [text : SceneTexts, conf : {80}, box : WordBoxes] : Inside(e.box, img)}
  \cup {e \in {[text |-> <<"M","e">>, conf |-> 29, box |-> <<10, 10, 50, 20>>]} :
          Inside(e.box, img)}
\* "ok" with up to MaxWords words; "raises": image_to_data raises (no Tesseract
\* binary, or an OCR error); "unavailable": the pytesseract package is
\* missing, which only a program without image_processor.py can survive
OcrOutcomes(img) ==
  {[status |-> "ok", data |-> d] :
     d \in UNION {[1..n -> OcrWords(img)] : n \in 0..MaxWords}}
  \cup {[status |-> st, data |-> <<>>] : st \in {"raises", "unavailable"}}
TargetPhrases == {<<"R","e","m","i","n","d"," ","M","e">>, <<"M","e">>,
                  <<"r","e","m","i","n","d">>, <<" ">>}
ContourChoices == {<<>>, <<[box |-> <<5, 5, 40, 20>>]>>,
                   <<[box |-> <<5, 5, 40, 20>>], [box |-> <<0, 0, 300, 5>>]>>}

NoCall == [op |-> "none", target_word |-> <<>>, case_sensitive |-> FALSE,
           exact_match |-> FALSE, contours |-> <<>>]
NoRet == [regions |-> <<>>, matched_boxes |-> <<>>, source |-> "none"]

\* a call of TextDetector.detect_specific_word with the default threshold.
\* The detectors keep no state between calls, so one call is made per image.
TD_detect_specific_word ==
  /\ tdCall.op = "none"
  /\ \E target_word \in TargetPhrases,
        case_sensitive \in BOOLEAN, exact_match \in BOOLEAN :
       LET r == DetectSpecificWord(td_image, ocr, target_word,
                                   ConfidenceThreshold, case_sensitive, exact_match)
       IN /\ tdCall' = [op |-> "detect_specific_word", target_word |-> target_word,
                        case_sensitive |-> case_sensitive,
                        exact_match |-> exact_match, contours |-> <<>>]
          /\ tdRet' = [regions |-> r.regions, matched_boxes |-> r.matched_boxes,
                       source |-> "ocr"]
          /\ dialogs' = r.dialogs
  /\ UNCHANGED <<td_image, ocr>>
  /\ UNCHANGED <<historyVars, appVars, batchVars, matchVars, regionVars, effectVars, overlapVars>>

\* process_image in mode "target_text", up to the regions it goes on with:
\* the warning for an empty entry, the detector called with its defaults,
\* "Could not find the word" when the list it returns is empty
MW_target_text ==
  /\ tdCall.op = "none"
  /\ ocr.status # "unavailable"
  /\ \E word \in TargetPhrases \cup {<<>>} :
       LET r == DetectSpecificWord(td_image, ocr, word,
                                   ConfidenceThreshold, FALSE, FALSE)
       IN /\ tdCall' = [op |-> "process_image", target_word |-> word,
                        case_sensitive |-> FALSE, exact_match |-> FALSE,
                        contours |-> <<>>]
          /\ IF word = <<>>
             THEN /\ tdRet' = NoRet
                  /\ dialogs' = <<"Please type the word you want to blur.">>
             ELSE /\ tdRet' = [regions |-> r.regions,
                               matched_boxes |-> r.matched_boxes, source |-> "ocr"]
                  /\ dialogs' = r.dialogs
                       \o (IF r.regions = <<>> THEN <<"Could not find the word">>
                           ELSE <<>>)
  /\ UNCHANGED <<td_image, ocr>>
  /\ UNCHANGED <<historyVars, appVars, batchVars, matchVars, regionVars, effectVars, overlapVars>>

\* a call of DetectionEngine.detect_text on the image
DE_detect_text ==
  /\ tdCall.op = "none"
  /\ ocr.status # "unavailable"
  /\ \E contours \in ContourChoices :
       LET r == detect_text(ocr, contours)
       IN /\ tdCall' = [op |-> "detect_text", target_word |-> <<>>,
                        case_sensitive |-> FALSE, exact_match |-> FALSE,
                        contours |-> contours]
          /\ tdRet' = [regions |-> r.boxes, matched_boxes |-> <<>>,
                       source |-> r.source]
          /\ dialogs' = <<>>
  /\ UNCHANGED <<td_image, ocr>>
  /\ UNCHANGED <<historyVars, appVars, batchVars, matchVars, regionVars, effectVars, overlapVars>>

\* ------------------------------- the main window's arrays (main_window.py)
\* image[y:y+h, x:x+w] = region, for a region of the shape of that slice
Paste(image, x, y, region) ==
  [image EXCEPT !.px =
     [rc \in DOMAIN image.px |->
        IF /\ y <= rc[1] /\ rc[1] < y + region.h
           /\ x <= rc[2] /\ rc[2] < x + region.w
        THEN region.px[<<rc[1] - y, rc[2] - x>>]
        ELSE image.px[rc]]]

MWEffects == {"blur", "pixelation", "black_bar", "gradient", "mosaic",
              "glass", "oil_paint"}
MWOpacities == {0, 50, 100}          \* OPACITY_RANGE is 0..100
MWBoxes == {<<0, 0, 2, 2>>, <<1, 0, 1, 1>>}

\* the effect apply_effect_to_region dispatches to, on self.processed_image,
\* with the sliders at their defaults
MWEffect(image, x, y, w, h, effect) ==
  IF effect = "blur" THEN gaussian_blur(image, x, y, w, h, 51)
  ELSE IF effect = "pixelation" THEN pixelate(image, x, y, w, h, 15)
  ELSE IF effect = "black_bar" THEN black_bar(image, x, y, w, h)
  ELSE IF effect = "gradient" THEN gradient_fade(image, x, y, w, h)
  ELSE IF effect = "mosaic" THEN mosaic_effect(image, x, y, w, h, 10)
  ELSE IF effect = "glass" THEN frosted_glass(image, x, y, w, h)
  ELSE oil_paint(image, x, y, w, h)

NoRegion == [n |-> 0, box |-> <<0, 0, 0, 0>>, effect |-> "none", opacity |-> 100,
             original_region |-> NoImage, effected |-> NoImage, wrote |-> FALSE]

\* apply_effect_to_region(x, y, w, h, effect): the region of original_image,
\* the effect on processed_image, the blend unless opacity is 100, and the
\* result written into processed_image; an exception leaves it as it was
MW_apply_effect_to_region ==
  /\ mwRegion.n < MaxApplies
  /\ \E box \in MWBoxes, effect \in MWEffects, opacity \in MWOpacities :
       LET x == box[1]
           y == box[2]
           w == box[3]
           h == box[4]
           original_region == Crop(pixels.original_image, x, y, w, h)
           effected == MWEffect(pixels.processed_image, x, y, w, h, effect)
           result == IF effected.raised THEN Raised
                     ELSE IF opacity < 100
                       THEN apply_opacity(original_region, effected.image, opacity)
                     ELSE effected
           wrote == ~result.raised /\ ~IsEmptyImage(result.image)
       IN /\ pixels' = IF wrote
                       THEN [pixels EXCEPT !.processed_image =
                               Paste(pixels.processed_image, x, y, result.image)]
                       ELSE pixels
          /\ mwRegion' = [n |-> mwRegion.n + 1, box |-> box, effect |-> effect,
                          opacity |-> opacity,
                          original_region |-> original_region,
                          effected |-> IF effected.raised THEN NoImage
                                       ELSE effected.image,
                          wrote |-> wrote]
  /\ UNCHANGED <<historyVars, appVars, batchVars, textVars, matchVars, effectVars, overlapVars>>

\* ------------------------------------ effects on their own (image_processor.py)
\* a region of w x h pixels whose rows and columns all differ
TestRegion(w, h) ==
  [w |-> w, h |-> h, px |-> [rc \in Coords(w, h) |-> 20 * rc[1] + 5 * rc[2] + 7]]
\* block sizes: below 1, 1, the sizes around the region's, the slider's default
BlockSizes == {0 - 1, 0, 1, 2, 3, 15}
NoFx == [op |-> "none", region |-> NoImage, pixel_size |-> 0, temp |-> <<0, 0>>,
         blurred |-> NoImage, out |-> NoImage]

\* ImageProcessor.pixelate on a whole region; temp is the size handed to the
\* first cv2.resize
IP_pixelate ==
  /\ \E w \in 1..MaxSide, h \in 1..MaxSide, pixel_size \in BlockSizes :
       LET region == TestRegion(w, h)
       IN fx' = [op |-> "pixelate", region |-> region, pixel_size |-> pixel_size,
                 temp |-> PixelateTempSize(w, h, pixel_size),
                 blurred |-> NoImage,
                 out |-> pixelate(region, 0, 0, w, h, pixel_size).image]
  /\ UNCHANGED <<historyVars, appVars, batchVars, textVars, matchVars, regionVars, overlapVars>>

\* ImageProcessor.gradient_fade on a whole region; blurred is the local of
\* that name, cv2.GaussianBlur(region, (99, 99), 0)
IP_gradient_fade ==
  /\ \E w \in 1..MaxSide, h \in 1..MaxSide :
       LET region == TestRegion(w, h)
       IN fx' = [op |-> "gradient_fade", region |-> region, pixel_size |-> 0,
                 temp |-> <<0, 0>>,
                 blurred |-> gaussian_blur(region, 0, 0, w, h, 99).image,
                 out |-> gradient_fade(region, 0, 0, w, h).image]
  /\ UNCHANGED <<historyVars, appVars, batchVars, textVars, matchVars, regionVars, overlapVars>>

\* -------------------------------------------------------- specifications
\* the window and its HistoryManager(max_history) as constructed
Init ==
  /\ hm \in {HM_init(m) : m \in 1..MaxHistoryBound}
  /\ calls = <<>>
  /\ prevCall = "none"
  /\ ret = None
  /\ lenBefore = <<0, 0>>
  /\ phase = "saving"
  /\ saves = <<>>
  /\ undos = 0
  /\ original_image = None
  /\ processed_image = None
  /\ drawing_regions = 0
  /\ mwLast = [op |-> "init", exit |-> "done"]
  /\ numpy_strict \in BOOLEAN
  /\ selected_files = <<>>
  /\ processing = FALSE
  /\ total_files = 0
  /\ current_progress = 0
  /\ failed_count = 0
  /\ start_btn = "normal"
  /\ closed = FALSE
  /\ wpc = "none"
  /\ wi = 0
  /\ input_paths = <<>>
  /\ settings = DefaultSettings
  /\ results = <<>>
  /\ cbLog = <<>>
  /\ env = <<>>

\* ------------------------- runs of the batch window that overlap in time
\* workers holds the worker threads that have not yet handed over to
\* on_complete, oldest first: the files given to each, the position of its
\* loop, and whether process_batch has returned. All of them append to the
\* one BatchProcessor.results and call on_progress and on_error of the one
\* window.
Running(k) == workers[k].pc = "loop"
\* workers without the one at position k
WithoutWorker(k) == SelectSeq2(workers, (1..Len(workers)) \ {k}, 1)

\* start_processing past its early returns, with every chosen file valid and
\* the settings left at their defaults: the counters are reset, the buttons
\* disabled and a new thread started, which empties self.results; whether an
\* earlier thread is still alive is not looked at
T_start_processing ==
  /\ ~closed
  /\ start_btn = "normal"
  /\ selected_files # <<>>
  /\ Len(workers) < MaxWorkers
  /\ workers' = Append(workers, [pc |-> "loop", i |-> 0,
                                 valid_files |-> selected_files])
  /\ processing' = TRUE
  /\ total_files' = Len(selected_files)
  /\ current_progress' = 0
  /\ failed_count' = 0
  /\ start_btn' = UiState(TRUE)
  /\ results' = <<>>
  /\ cbLog' = <<>>
  /\ UNCHANGED <<numpy_strict, selected_files, closed, wpc, wi, input_paths,
                 settings, env>>
  /\ UNCHANGED <<historyVars, appVars, textVars, matchVars, regionVars, effectVars>>

\* one turn of the loop of process_batch in the thread at position k: the
\* result or the error entry is appended to the shared list and the window's
\* callback is invoked
T_process_file ==
  \E k \in 1..Len(workers), decodable \in BOOLEAN :
    /\ Running(k)
    /\ workers[k].i < Len(workers[k].valid_files)
    /\ LET idx == workers[k].i + 1
           input_path == workers[k].valid_files[idx]
           r == ProcessSingleImage(input_path, settings, numpy_strict,
                                   decodable, 0, TRUE)
       IN /\ results' = Append(results, IF r.raised
                                        THEN ErrorInfo(input_path, r.error)
                                        ELSE r.result)
          /\ cbLog' = cbLog \o Callbacks(r.raised, idx, input_path)
          /\ current_progress' = IF r.raised THEN current_progress
                                 ELSE OnProgress(idx)
          /\ failed_count' = IF r.raised THEN failed_count + 1 ELSE failed_count
          /\ workers' = [workers EXCEPT ![k].i = idx]
    /\ UNCHANGED <<numpy_strict, selected_files, processing, total_files,
                   start_btn, closed, wpc, wi, input_paths, settings, env>>
    /\ UNCHANGED <<historyVars, appVars, textVars, matchVars, regionVars, effectVars>>

\* the loop of the thread at position k is exhausted: process_batch returns
\* and the thread schedules on_complete
T_return ==
  \E k \in 1..Len(workers) :
    /\ Running(k)
    /\ workers[k].i = Len(workers[k].valid_files)
    /\ workers' = [workers EXCEPT ![k].pc = "returned"]
    /\ UNCHANGED <<batchVars, historyVars, appVars, textVars, matchVars,
                   regionVars, effectVars>>

\* on_complete scheduled by the thread at position k: the flag is cleared
\* and the buttons are enabled, whatever other thread is still running
T_on_complete ==
  \E k \in 1..Len(workers) :
    /\ workers[k].pc = "returned"
    /\ workers' = WithoutWorker(k)
    /\ processing' = FALSE
    /\ start_btn' = IF closed THEN start_btn ELSE UiState(FALSE)
    /\ UNCHANGED <<numpy_strict, selected_files, total_files, current_progress,
                   failed_count, closed, wpc, wi, input_paths, settings,
                   results, cbLog, env>>
    /\ UNCHANGED <<historyVars, appVars, textVars, matchVars, regionVars, effectVars>>

NextApp ==
  \/ MW_load_image
  \/ MW_process_image
  \/ MW_draw_region
  \/ MW_undo
  \/ MW_redo
  \/ MW_reset_image

NextHistory ==
  \/ Call_save_state
  \/ Call_undo
  \/ Call_redo
  \/ Call_add_to_redo
  \/ Call_clear

NextBatch ==
  \/ BW_add_files
  \/ BW_start_processing
  \/ BW_stop_processing
  \/ BW_on_close
  \/ BW_on_complete
  \/ W_begin_file
  \/ W_finish_file
  \/ W_return

\* no text detection asked for, no word tested, no image in the arrays
TextIdle ==
  /\ td_image = [w |-> 0, h |-> 0]
  /\ ocr = [status |-> "ok", data |-> <<>>]
  /\ tdCall = NoCall
  /\ tdRet = NoRet
  /\ dialogs = <<>>
MatchIdle == mt = NoMatch
RegionIdle ==
  /\ pixels = [original_image |-> NoImage, processed_image |-> NoImage]
  /\ mwRegion = NoRegion
EffectIdle == fx = NoFx
OverlapIdle == workers = <<>>
SideIdle == TextIdle /\ MatchIdle /\ RegionIdle /\ EffectIdle /\ OverlapIdle

\* the batch window as constructed; the main window's history plays no part
InitBatch == Init /\ hm = HM_init(MaxHistoryBound) /\ SideIdle
\* the history manager as constructed; the NumPy in use plays no part
InitHistory == Init /\ numpy_strict = FALSE /\ SideIdle
\* an image given to the text detectors, and the OCR engine's answer on it
InitText ==
  /\ Init /\ hm = HM_init(MaxHistoryBound) /\ numpy_strict = FALSE
  /\ MatchIdle /\ RegionIdle /\ EffectIdle /\ OverlapIdle
  /\ td_image \in ImageShapes
  /\ ocr \in OcrOutcomes(td_image)
  /\ tdCall = NoCall
  /\ tdRet = NoRet
  /\ dialogs = <<>>
\* no word tested yet
InitMatch ==
  /\ Init /\ hm = HM_init(MaxHistoryBound) /\ numpy_strict = FALSE
  /\ TextIdle /\ MatchIdle /\ RegionIdle /\ EffectIdle /\ OverlapIdle
\* load_image has filled the two arrays with the decoded file
InitRegion ==
  /\ Init /\ hm = HM_init(MaxHistoryBound) /\ numpy_strict = FALSE
  /\ TextIdle /\ MatchIdle /\ EffectIdle /\ OverlapIdle
  /\ \E k \in 1..MaxImage :
       pixels = [original_image |-> DiskImage(PathOf(k)),
                 processed_image |-> DiskImage(PathOf(k))]
  /\ mwRegion = NoRegion

NextText ==
  \/ TD_detect_specific_word
  \/ MW_target_text
  \/ DE_detect_text

NextMatch == TD_match_word

NextRegion == MW_apply_effect_to_region

\* no effect called yet
InitEffect ==
  /\ Init /\ hm = HM_init(MaxHistoryBound) /\ numpy_strict = FALSE
  /\ SideIdle

NextEffect ==
  \/ IP_pixelate
  \/ IP_gradient_fade

\* the batch window and the worker thread of its run
SpecBatch == InitBatch /\ [][NextBatch]_vars
\* any calls on the manager, with any arguments (each handler of the window
\* is a sequence of such calls)
SpecHistory == InitHistory /\ [][NextHistory]_vars
\* the application: the manager is reached through the handlers only
SpecApp == InitHistory /\ [][NextApp]_vars
\* the text detectors on one image
SpecText == InitText /\ [][NextText]_vars
\* the matching rule on one OCR word
SpecMatch == InitMatch /\ [][NextMatch]_vars
\* effects applied to regions of one loaded image
SpecRegion == InitRegion /\ [][NextRegion]_vars
\* the effects called on regions of every size up to MaxSide
SpecEffect == InitEffect /\ [][NextEffect]_vars

\* the files the user has put in the list of the batch window
OverlapFiles == <<PathOf(1), PathOf(2)>>
\* the batch window with its list filled, no thread started
InitOverlap ==
  /\ hm = HM_init(MaxHistoryBound) /\ numpy_strict = FALSE
  /\ calls = <<>> /\ prevCall = "none" /\ ret = None /\ lenBefore = <<0, 0>>
  /\ phase = "saving" /\ saves = <<>> /\ undos = 0
  /\ original_image = None /\ processed_image = None
  /\ drawing_regions = 0 /\ mwLast = [op |-> "init", exit |-> "done"]
  /\ selected_files = OverlapFiles
  /\ processing = FALSE /\ total_files = 0 /\ current_progress = 0
  /\ failed_count = 0 /\ start_btn = "normal" /\ closed = FALSE
  /\ wpc = "none" /\ wi = 0 /\ input_paths = <<>>
  /\ settings = DefaultSettings
  /\ results = <<>> /\ cbLog = <<>> /\ env = <<>>
  /\ SideIdle

NextOverlap ==
  \/ T_start_processing
  \/ BW_stop_processing
  \/ BW_on_close
  \/ T_process_file
  \/ T_return
  \/ T_on_complete

\* the batch window with every thread its Start button can start
SpecOverlap == InitOverlap /\ [][NextOverlap]_vars

\* ------------------------------------------------------ history properties
\* C4: the undo stack never holds more than max_history entries, whatever
\* calls are made on the manager, directly or by the window's handlers.
C4_UndoStackBounded == Len(hm.history) <= hm.max_history

\* C4 witness: redo() returned an entry and the save_state that follows it
\* (the window's redo handler) pushed on a full history, evicting an entry.
C4_Witness ==
  /\ prevCall = "redo:entry"
  /\ calls = <<"save_state">>
  /\ lenBefore[1] = hm.max_history
  /\ Len(hm.history) = hm.max_history

\* C5: right after a save_state call with an image, the redo stack is empty.
C5_SaveClearsRedo ==
  (calls # <<>> /\ Last(calls) = "save_state") => hm.redo_stack = <<>>

\* C5 witness: a direct save_state call found two entries on the redo stack.
C5_Witness ==
  /\ calls = <<"save_state">>
  /\ lenBefore[2] = 2
  /\ hm.redo_stack = <<>>

\* C6: after k > max_history consecutive save_state calls the history is the
\* max_history most recent states, and the undo() calls that follow return
\* them newest first, then None.
C6_FifoEvictionLifoUndo ==
  LET k == Len(saves)
  IN /\ (phase = "saving" /\ k > hm.max_history)
          => hm.history = SubSeq(saves, k - hm.max_history + 1, k)
     /\ (phase = "undoing" /\ k > hm.max_history)
          => ret = IF undos <= hm.max_history THEN saves[k - undos + 1]
                   ELSE None

\* C6 witness: more saves than the capacity (at least 2), the newest two
\* different, then capacity + 1 undo() calls, the last returning None.
C6_Witness ==
  /\ phase = "undoing"
  /\ hm.max_history >= 2
  /\ Len(saves) > hm.max_history
  /\ saves[Len(saves)] # saves[Len(saves) - 1]
  /\ undos = hm.max_history + 1
  /\ ret = None

\* C7: in the application every push on the redo stack is the call right
\* after an undo() that returned an entry, and the redo stack grows in no
\* other way.
C7_RedoGrowsOnlyAfterUndo ==
  /\ \A j \in 1..Len(calls) :
       calls[j] = "add_to_redo:push"
         => (IF j > 1 THEN calls[j - 1] ELSE prevCall) = "undo:entry"
  /\ Len(hm.redo_stack) > lenBefore[2]
       => /\ Len(calls) = 2
          /\ calls[1] = "undo:entry"
          /\ calls[2] = "add_to_redo:push"

\* C7 witness: a second undo in a row pushed a second entry on the redo stack.
C7_Witness ==
  /\ calls = <<"undo:entry", "add_to_redo:push">>
  /\ prevCall = "add_to_redo:push"
  /\ Len(hm.redo_stack) = 2

\* -------------------------------------------------------- batch properties
\* C1: once the flag is cleared (Stop or Close) while the worker is between
\* two files, the worker starts no further file.
C1_NoFileStartedAfterStop ==
  [][(wpc = "loop" /\ ~processing) => wpc' # "infile"]_vars

\* C2: when process_batch returns there is one result per input path, in
\* input order, and success is false exactly for the files that did not
\* decode.
C2_OneResultPerFile ==
  wpc = "returned" =>
    /\ Len(results) = Len(input_paths)
    /\ \A j \in 1..Len(results) :
         /\ results[j].input_path = input_paths[j]
         /\ (results[j].success = FALSE) <=> ~env[j].decodable

\* C3: every finished file has had exactly one callback, error_callback if
\* its processing raised and progress_callback if not, in input order, and
\* the callback of a file is made before the next file is started.
C3_OneCallbackPerFileInOrder ==
  /\ Len(cbLog) = Len(results)
  /\ \A j \in 1..Len(cbLog) :
       /\ cbLog[j].idx = j
       /\ cbLog[j].path = input_paths[j]
       /\ cbLog[j].cb = IF env[j].raised THEN "error" ELSE "progress"
  /\ wpc = "infile" => Len(cbLog) = wi - 1
  /\ wpc \in {"loop", "returned"} => Len(cbLog) = wi

\* C3 witness: a run of two files has returned; the first file failed and
\* the second succeeded.
C3_Witness ==
  /\ wpc = "returned"
  /\ Len(cbLog) = 2
  /\ cbLog[1].cb = "error"
  /\ cbLog[2].cb = "progress"

\* the pixels of an image that lie in none of the boxes
OutsideBoxes(image, boxes) ==
  {rc \in DOMAIN image.px :
     \A j \in 1..Len(boxes) :
       ~ /\ boxes[j][1] <= rc[2] /\ rc[2] < boxes[j][1] + boxes[j][3]
         /\ boxes[j][2] <= rc[1] /\ rc[1] < boxes[j][2] + boxes[j][4]}

\* C8: for every decodable file the image handed to the encoder has the
\* width and height of the input and equals it outside the detected regions.
C8_OutputSameSizeChangedInRegionsOnly ==
  \A j \in 1..Len(env) :
    env[j].decodable =>
      /\ env[j].out.w = env[j].image.w
      /\ env[j].out.h = env[j].image.h
      /\ \A rc \in OutsideBoxes(env[j].image, env[j].regions.boxes) :
           env[j].out.px[rc] = env[j].image.px[rc]

\* C9: a decodable file with n >= 1 detected regions is recorded as a
\* success with regions_processed = n and an output path, and error_callback
\* is not invoked for it.
C9_RegionsMeanSuccess ==
  \A j \in 1..Len(env) :
    (env[j].decodable /\ Len(env[j].regions.boxes) >= 1) =>
      /\ results[j].success
      /\ results[j].regions_processed = Len(env[j].regions.boxes)
      /\ results[j].output_path # NoPath
      /\ cbLog[j].cb # "error"

\* C10: a decodable file with no detected region is handed to the encoder
\* unchanged and recorded as a success with regions_processed = 0 and no
\* error, and error_callback is not invoked for it.
C10_NoRegionsMeanSuccess ==
  \A j \in 1..Len(env) :
    (env[j].decodable /\ Len(env[j].regions.boxes) = 0) =>
      /\ env[j].out = env[j].image
      /\ results[j].success
      /\ results[j].regions_processed = 0
      /\ results[j].error = "None"
      /\ cbLog[j].cb # "error"

\* ------------------------------------------------- batch output properties
\* C11: for every file of a batch run that is processed with one detected
\* region, the pixels handed to the encoder for that region are
\* opacity/100 * effected + (1 - opacity/100) * original, with the opacity of
\* settings.effect_params.
C11_BatchAppliesOpacity ==
  \A j \in 1..Len(env) :
    (~env[j].raised /\ env[j].decodable /\ Len(env[j].regions.boxes) = 1) =>
      LET b == env[j].regions.boxes[1]
          original == Crop(env[j].image, b[1], b[2], b[3], b[4])
          effected == ApplyEffectToRegion(env[j].image, b[1], b[2], b[3], b[4],
                                          settings.effect_type,
                                          settings.effect_params).image
      IN Crop(env[j].out, b[1], b[2], b[3], b[4])
           = apply_opacity(original, effected,
                           settings.effect_params.opacity).image

\* C12: the output file of every successfully processed input is named
\* processed_<stem><ext> with the stem and the extension of the input.
C12_OutputKeepsExtension ==
  \A j \in 1..Len(results) :
    results[j].success =>
      /\ results[j].output_path.stem = results[j].input_path.stem
      /\ results[j].output_path.ext = results[j].input_path.ext

\* ------------------------------------------------ text detection properties
\* the call in the state is detect_specific_word with a phrase of several
\* words and at least two matched words: the grouped path
GroupedPath ==
  /\ tdCall.op = "detect_specific_word"
  /\ Len(Split(Strip(tdCall.target_word))) > 1
  /\ Len(tdRet.matched_boxes) > 1

\* C13: every box detect_specific_word returns, grouped or one per match,
\* lies inside the image: 0 <= x, 0 <= y, x + w <= width, y + h <= height.
C13_BoxesInsideImage ==
  tdCall.op = "detect_specific_word" =>
    \A k \in 1..Len(tdRet.regions) :
      LET b == tdRet.regions[k]
      IN /\ 0 <= b[1] /\ 0 <= b[2]
         /\ b[1] + b[3] <= td_image.w
         /\ b[2] + b[4] <= td_image.h

\* a grouped box that the clamp cut at the right and at the bottom edge
C13_Witness ==
  /\ GroupedPath
  /\ tdRet.regions # <<>>
  /\ \E k \in 1..Len(tdRet.regions) :
       /\ tdRet.regions[k][1] + tdRet.regions[k][3] = td_image.w
       /\ tdRet.regions[k][2] + tdRet.regions[k][4] = td_image.h
  /\ \E e \in {tdRet.matched_boxes[j] : j \in 1..Len(tdRet.matched_boxes)} :
       e.box[1] + e.box[3] + 8 > td_image.w

\* the matched word the grouper meets first: least (y, x), earliest on a tie
C14_Seed ==
  LET m == tdRet.matched_boxes
      Before(i, j) == \/ m[i].box[2] < m[j].box[2]
                      \/ m[i].box[2] = m[j].box[2] /\ m[i].box[1] < m[j].box[1]
                      \/ m[i].box[2] = m[j].box[2] /\ m[i].box[1] = m[j].box[1]
                         /\ i <= j
  IN m[CHOOSE i \in 1..Len(m) : \A j \in 1..Len(m) : Before(i, j)].box

\* every matched word lies on the seed's line within the horizontal tolerance
C14_AllNearSeed ==
  \A j \in 1..Len(tdRet.matched_boxes) :
    LET b == tdRet.matched_boxes[j].box
    IN \/ b = C14_Seed
       \/ /\ Abs(C14_Seed[2] - b[2]) <= Max(C14_Seed[4], b[4])
          /\ Abs(b[1] - (C14_Seed[1] + C14_Seed[3])) < 150

\* C14: for a phrase of several words, when two or more OCR words match and
\* all lie on the seed's line within the horizontal tolerance, exactly one
\* box is returned and it spans every one of them.
C14_OneBoxPerLine ==
  (GroupedPath /\ C14_AllNearSeed) =>
    /\ Len(tdRet.regions) = 1
    /\ \A j \in 1..Len(tdRet.matched_boxes) :
         LET b == tdRet.matched_boxes[j].box
             r == tdRet.regions[1]
         IN /\ r[1] <= b[1] /\ b[1] + b[3] <= r[1] + r[3]
            /\ r[2] <= b[2] /\ b[2] + b[4] <= r[2] + r[4]

\* 'Remind' at (10,10,50,20) and 'Me' at (65,10,30,20) with phrase 'Remind Me'
C14_Witness ==
  /\ GroupedPath
  /\ tdCall.target_word = <<"R","e","m","i","n","d"," ","M","e">>
  /\ {tdRet.matched_boxes[j] : j \in 1..Len(tdRet.matched_boxes)}
       = {[text |-> <<"R","e","m","i","n","d">>, conf |-> 80,
           box |-> <<10, 10, 50, 20>>],
          [text |-> <<"M","e">>, conf |-> 80, box |-> <<65, 10, 30, 20>>]}
  /\ Len(tdRet.regions) = 1

\* the rectangle u enlarged by p on its four sides and cut to the image
C15_Exact(u, p) ==
  LET x0 == Max(0, u[1] - p)
      y0 == Max(0, u[2] - p)
      x1 == Min(td_image.w, u[1] + u[3] + p)
      y1 == Min(td_image.h, u[2] + u[4] + p)
  IN <<x0, y0, x1 - x0, y1 - y0>>

\* C15: the boxes returned are, group by group (padding 10) or match by
\* match (padding 8), the union rectangle enlarged by the padding on all four
\* sides and intersected with the image, those no wider or no higher than 5
\* left out.
C15_ExactPaddedBoxes ==
  tdCall.op = "detect_specific_word" =>
    LET m == tdRet.matched_boxes
        sorted_boxes == SortBoxes(m)
        groups == Groups(sorted_boxes, 1, {}, 50)
    IN tdRet.regions =
         IF GroupedPath
         THEN KeepLarge([g \in 1..Len(groups) |->
                C15_Exact(UnionBox({sorted_boxes[j].box : j \in groups[g]}), 10)])
         ELSE KeepLarge([k \in 1..Len(m) |-> C15_Exact(m[k].box, 8)])

\* --------------------------------------------------- matching properties
\* the tested word after the case normalisation, and the phrase's words
C16_Word == IF mt.case_sensitive THEN mt.detected_text ELSE Lower(mt.detected_text)
C16_Phrase ==
  IF mt.case_sensitive THEN Strip(mt.target_word) ELSE Lower(Strip(mt.target_word))

\* C16: for a phrase of one word, a non-empty OCR word at or above the
\* confidence floor matches iff it equals the phrase (exact_match) or has
\* the phrase as a substring (otherwise), both after case normalisation.
C16_SingleWordMatch ==
  (mt.tested /\ Len(Split(C16_Phrase)) = 1 /\ mt.conf >= 30) =>
    (mt.match_found <=>
       IF mt.exact_match THEN C16_Word = C16_Phrase
       ELSE \E a \in 0..Len(C16_Word), b \in 0..Len(C16_Word) :
              a <= b /\ SubSeq(C16_Word, a + 1, b) = C16_Phrase)

\* phrase 'cat', exact_match, OCR word 'category' at confidence 80: no match
C16_Witness ==
  /\ mt.tested
  /\ mt.target_word = <<"c","a","t">>
  /\ mt.exact_match
  /\ mt.detected_text = <<"c","a","t","e","g","o","r","y">>
  /\ mt.conf = 80
  /\ ~mt.match_found

C18_FailureDistinguished ==
  (/\ tdCall.op \in {"detect_specific_word", "process_image"}
   /\ Strip(tdCall.target_word) # <<>>
   /\ ocr.status # "ok") =>
    /\ tdRet.regions #
         DetectSpecificWord(td_image, [status |-> "ok", data |-> <<>>],
                            tdCall.target_word, ConfidenceThreshold,
                            tdCall.case_sensitive, tdCall.exact_match).regions
    /\ \A k \in 1..Len(dialogs) : dialogs[k] # "Could not find the word"

\* C19: when the OCR call fails, detect_text returns no region and nothing
\* that another detector produced.
C19_NoFallbackRegions ==
  (tdCall.op = "detect_text" /\ ocr.status # "ok") =>
    /\ tdRet.regions = <<>>
    /\ tdRet.source # "contours"

\* ------------------------------------------------------ opacity properties
\* C20: the pixels apply_effect_to_region writes back are the effected region
\* at opacity 100 and the region of the original image at opacity 0; in
\* between they are opacity/100 * effected + (1 - opacity/100) * original.
C20_OpacityEndpoints ==
  mwRegion.wrote =>
    LET b == mwRegion.box
        written == Crop(pixels.processed_image, b[1], b[2], b[3], b[4])
    IN /\ mwRegion.opacity = 100 => written = mwRegion.effected
       /\ mwRegion.opacity = 0 => written = mwRegion.original_region
       /\ \A rc \in DOMAIN written.px :
            written.px[rc] =
              RoundHalfEven(mwRegion.opacity * mwRegion.effected.px[rc]
                            + (100 - mwRegion.opacity)
                              * mwRegion.original_region.px[rc], 100)

\* a second effect at opacity 0 on a region an earlier effect had changed
C20_Witness ==
  /\ mwRegion.wrote
  /\ mwRegion.n = 2
  /\ mwRegion.opacity = 0
  /\ mwRegion.effected # mwRegion.original_region
  /\ pixels.processed_image # pixels.original_image

\* ------------------------------------------------------ effect properties
\* C21 as stated: pixelate floors the block size at 1 and uses an
\* intermediate grid of ceil(w / b) x ceil(h / b) cells.
C21_GridIsCeiling ==
  fx.op = "pixelate" =>
    LET b == Max(1, fx.pixel_size)
    IN fx.temp = <<(fx.region.w + b - 1) \div b, (fx.region.h + b - 1) \div b>>

\* C21: pixelate floors the block size b at 1 and uses an intermediate grid
\* of max(1, floor(w / b)) x max(1, floor(h / b)) cells; the output has the
\* size of the region.
C21_GridIsFloorAtLeastOne ==
  fx.op = "pixelate" =>
    LET b == IF fx.pixel_size < 1 THEN 1 ELSE fx.pixel_size
        FloorOrOne(n, t) == \/ t = 1 /\ n < b
                            \/ t >= 1 /\ t * b <= n /\ n < (t + 1) * b
    IN /\ FloorOrOne(fx.region.w, fx.temp[1])
       /\ FloorOrOne(fx.region.h, fx.temp[2])
       /\ fx.out.w = fx.region.w /\ fx.out.h = fx.region.h

\* a region 3 wide with block size 2: one column of cells, where the ceiling is 2
C21_Witness ==
  /\ fx.op = "pixelate"
  /\ fx.region.w = 3
  /\ fx.pixel_size = 2
  /\ fx.temp[1] = 1

\* C22: the output of gradient_fade blends the region with its blurred copy
\* row by row, the weight of the blur rising linearly from 0 in the top row
\* to 1 in the bottom row: the top row is the region's, the bottom row is the
\* blurred copy's.
C22_GradientBlend ==
  (fx.op = "gradient_fade" /\ fx.region.h >= 2) =>
    \A rc \in DOMAIN fx.out.px :
      fx.out.px[rc] =
        RoundHalfEven((fx.region.h - 1 - rc[1]) * fx.region.px[rc]
                      + rc[1] * fx.blurred.px[rc], fx.region.h - 1)

\* ------------------------------------------------ batch result properties
\* C23: every result with success = true has its output file written; a
\* file whose output could not be written is a failure reported through
\* error_callback.
C23_SuccessMeansWritten ==
  \A j \in 1..Len(env) :
    /\ results[j].success => env[j].wrote
    /\ (env[j].decodable /\ ~env[j].wrote) =>
         (~results[j].success /\ cbLog[j].cb = "error")

\* C27: within one run, two different input paths that both succeed have
\* different output paths.
C27_DistinctOutputs ==
  \A j \in 1..Len(results), k \in 1..Len(results) :
    (/\ results[j].success /\ results[k].success
     /\ results[j].input_path # results[k].input_path) =>
      results[j].output_path # results[k].output_path

\* ------------------------------------------------------ grouping properties
\* the groups _group_nearby_boxes forms of the matched boxes of the last call
C24_Sorted == SortBoxes(tdRet.matched_boxes)
C24_Groups == Groups(C24_Sorted, 1, {}, 50)
\* the boxes are met in (y, x) order and every one lies in exactly one group
C24_OrderedPartition ==
  /\ \A i \in 1..Len(C24_Sorted), j \in 1..Len(C24_Sorted) :
       i < j => \/ C24_Sorted[i].box[2] < C24_Sorted[j].box[2]
                \/ /\ C24_Sorted[i].box[2] = C24_Sorted[j].box[2]
                   /\ C24_Sorted[i].box[1] <= C24_Sorted[j].box[1]
  /\ \A p \in 1..Len(C24_Sorted) :
       Cardinality({g \in 1..Len(C24_Groups) : p \in C24_Groups[g]}) = 1
\* the boxes still un-grouped when the seed of group g is met
C24_Free(g) ==
  {p \in 1..Len(C24_Sorted) : \A f \in 1..(g - 1) : p \notin C24_Groups[f]}
  \ {MinOf(C24_Groups[g])}
\* twice the distance of the vertical centres of a and b
C24_CentreDiff2(a, b) == Abs((2 * a[2] + a[4]) - (2 * b[2] + b[4]))

\* C24 as stated: a box still un-grouped joins the seed's group iff the
\* vertical centres differ by at most the larger height and the box starts
\* within 150 pixels (150 included) of the seed's right edge.
C24_CentresWithin150 ==
  GroupedPath =>
    /\ C24_OrderedPartition
    /\ \A g \in 1..Len(C24_Groups) : \A p \in C24_Free(g) :
         LET seed == C24_Sorted[MinOf(C24_Groups[g])].box
             b == C24_Sorted[p].box
         IN p \in C24_Groups[g] <=>
              /\ C24_CentreDiff2(seed, b) <= 2 * Max(seed[4], b[4])
              /\ Abs(b[1] - (seed[1] + seed[3])) <= 150

\* C24 amended: a box still un-grouped joins the seed's group iff the TOP
\* edges differ by at most the larger height and the box starts LESS than 150
\* pixels from the seed's right edge; the boxes are met in (y, x) order and
\* every one ends in exactly one group.
C24_TopsBelow150 ==
  GroupedPath =>
    /\ C24_OrderedPartition
    /\ \A g \in 1..Len(C24_Groups) : \A p \in C24_Free(g) :
         LET seed == C24_Sorted[MinOf(C24_Groups[g])].box
             b == C24_Sorted[p].box
         IN p \in C24_Groups[g] <=>
              /\ Abs(seed[2] - b[2]) <= Max(seed[4], b[4])
              /\ Abs(b[1] - (seed[1] + seed[3])) < 150

\* a seed at (10,10,50,20) with a match starting exactly 150 from its right
\* edge that stays in a group of its own
C24_Witness ==
  /\ GroupedPath
  /\ Len(C24_Groups) = 2
  /\ C24_Sorted[1].box = <<10, 10, 50, 20>>
  /\ C24_Sorted[2].box = <<210, 10, 30, 20>>

\* ------------------------------------------------- undo and redo properties
\* a redo step taken with entries on the redo stack
C25_RedoStep == mwLast'.op = "redo" /\ hm.redo_stack # <<>>

\* C25: a redo takes back exactly one undo: with undone states on the redo
\* stack it succeeds, the working image becomes the newest of them, the image
\* it replaces goes back on the undo stack, and the older undone states stay
\* on the redo stack, so that n redos take back n consecutive undos.
C25_RedoMirrorsUndo ==
  [][C25_RedoStep =>
       /\ mwLast'.exit = "done"
       /\ processed_image' = Last(hm.redo_stack)
       /\ hm'.history = Append(hm.history, processed_image)
       /\ hm'.redo_stack = Front(hm.redo_stack)]_vars

\* C26: a process_image call that ends at one of its early returns, the
\* working image untouched, leaves the undo stack and the redo stack as they
\* were.
C26_NoEditNoHistory ==
  [][(/\ mwLast'.op = "process_image"
      /\ mwLast'.exit \in {"empty_word", "not_found", "no_drawn"}) =>
       /\ processed_image' = processed_image
       /\ hm'.history = hm.history
       /\ hm'.redo_stack = hm.redo_stack]_vars

\* --------------------------------------------------- completion properties
\* the worker of a run that nobody stopped has returned: on_complete is due
C29_RunComplete == wpc = "returned" /\ processing /\ ~closed
C29_Count(flag) ==
  Cardinality({j \in 1..Len(results) : results[j].success = flag})

\* C29: when an uninterrupted run completes, the counts on_complete shows
\* agree with the result list: successes, failures, and their sum the total.
C29_CountsAgree ==
  C29_RunComplete =>
    /\ success_count = C29_Count(TRUE)
    /\ failed_count = C29_Count(FALSE)
    /\ success_count + failed_count = total_files

\* --------------------------------------------------- coverage properties
\* the OCR words of the last detect_specific_word call that match the phrase
C30_Matched ==
  {k \in 1..Len(ocr.data) :
     /\ Strip(ocr.data[k].text) # <<>>
     /\ ocr.data[k].conf >= ConfidenceThreshold
     /\ MatchFound(Strip(ocr.data[k].text), tdCall.target_word,
                   tdCall.case_sensitive, tdCall.exact_match)}
\* the padded and clamped box the word box b ends in: its group's, or its own
C30_Region(b) ==
  IF GroupedPath
  THEN LET g == CHOOSE g \in 1..Len(C24_Groups) :
                  \E p \in C24_Groups[g] : C24_Sorted[p].box = b
       IN PadClamp(UnionBox({C24_Sorted[p].box : p \in C24_Groups[g]}),
                   10, td_image.w, td_image.h)
  ELSE PadClamp(b, 8, td_image.w, td_image.h)
C30_Covers(r, b) ==
  /\ r[1] <= b[1] /\ b[1] + b[3] <= r[1] + r[3]
  /\ r[2] <= b[2] /\ b[2] + b[4] <= r[2] + r[4]
\* the OCR data without the words under the confidence threshold
C30_Confident ==
  [ocr EXCEPT !.data = SelectSeq(ocr.data, LAMBDA e : e.conf >= ConfidenceThreshold)]

\* C30: after detect_specific_word on readable OCR data, every matched word
\* box inside the image lies wholly in a returned region unless its region
\* was dropped as no wider or no higher than 5, and the words under the
\* confidence threshold add nothing: the regions are those the call returns
\* on the data without them.
C30_MatchesCovered ==
  (/\ tdCall.op = "detect_specific_word"
   /\ ocr.status = "ok"
   /\ Strip(tdCall.target_word) # <<>>) =>
    /\ \A k \in C30_Matched :
         LET b == ocr.data[k].box
         IN Inside(b, td_image) =>
              \/ \E j \in 1..Len(tdRet.regions) : C30_Covers(tdRet.regions[j], b)
              \/ C30_Region(b)[3] <= 5
              \/ C30_Region(b)[4] <= 5
    /\ tdRet.regions =
         DetectSpecificWord(td_image, C30_Confident, tdCall.target_word,
                            ConfidenceThreshold, tdCall.case_sensitive,
                            tdCall.exact_match).regions

\* 'Me' read twice, once at confidence 80 and once at 29 in another place:
\* one region, around the confident word only
C30_Witness ==
  /\ tdCall.op = "detect_specific_word"
  /\ tdCall.target_word = <<"M","e">>
  /\ ocr.status = "ok"
  /\ Len(ocr.data) = 2
  /\ ocr.data[1] = [text |-> <<"M","e">>, conf |-> 29, box |-> <<10, 10, 50, 20>>]
  /\ ocr.data[2] = [text |-> <<"M","e">>, conf |-> 80, box |-> <<300, 10, 30, 20>>]
  /\ Len(tdRet.regions) = 1
  /\ C30_Covers(tdRet.regions[1], <<300, 10, 30, 20>>)

\* ------------------------------------------------- worker thread properties
\* C28: at most one worker thread is inside process_batch at any time,
\* whatever the user does with Start, Stop and Close.
C28_OneWorkerAtATime ==
  Cardinality({k \in 1..Len(workers) : Running(k)}) <= 1

====
